---- MODULE Spec2Model ----
(***************************************************************************)
(* Constraint sampler selection of moveit_core:                            *)
(*   ConstraintSamplerManager::selectSampler        (registry, first match)*)
(*   ConstraintSamplerManager::selectDefaultSampler (default decomposition)*)
(* selectDefaultSampler is modelled as a machine with an explicit call     *)
(* stack (one frame per invocation, recursion = push) and, from the same   *)
(* phase operators, as the recursive function selectDefaultSamplerFn.      *)
(***************************************************************************)
EXTENDS Integers, Sequences, FiniteSets, TLC

(***************************************************************************)
(* Bounds of the explored inputs.                                          *)
(***************************************************************************)
MaxJoint == 2
MaxPosition == 2
MaxOrientation == 2
MaxConstraints == 3
MaxAlloc == 2
MaxSelectConstraints == 1
MaxWaypoints == 2
MaxSwaps == 2
MaxTerminationConstraints == 2

(***************************************************************************)
(* The kinematic model (external collaborator, read-only).  A group has    *)
(* variables, links, an optional direct IK allocator                       *)
(* (getSolverAllocators().first) and the subgroups it has IK allocators    *)
(* for (the keys of getSolverAllocators().second).                         *)
(***************************************************************************)
Links == {"L1", "L2"}

Vars == {"j1", "j2"}

\* std::map<std::string, ...> iterates its keys in increasing string order
LinkOrder == <<"L1", "L2">>

GroupNames == {"armA", "armB", "legs", "both", "mixed", "over"}

RobotModel ==
  [g \in GroupNames |->
     CASE g = "armA"  -> [vars |-> {"j1"}, links |-> {"L1"}, ik_alloc |-> TRUE,
                          ik_subgroup_alloc |-> {}]
       [] g = "armB"  -> [vars |-> {"j2"}, links |-> {"L2"}, ik_alloc |-> TRUE,
                          ik_subgroup_alloc |-> {}]
       [] g = "legs"  -> [vars |-> {"j1"}, links |-> {"L1"}, ik_alloc |-> FALSE,
                          ik_subgroup_alloc |-> {}]
       [] g = "both"  -> [vars |-> {"j1", "j2"}, links |-> {"L1", "L2"}, ik_alloc |-> FALSE,
                          ik_subgroup_alloc |-> {"armA", "armB"}]
       [] g = "mixed" -> [vars |-> {"j1", "j2"}, links |-> {"L1", "L2"}, ik_alloc |-> TRUE,
                          ik_subgroup_alloc |-> {"armA", "armB"}]
       [] g = "over"  -> [vars |-> {"j1", "j2"}, links |-> {"L1", "L2"}, ik_alloc |-> FALSE,
                          ik_subgroup_alloc |-> {"legs", "mixed"}]]

\* getJointModelGroup(group_name): NULL for a name that is no group
getJointModelGroup(name) == IF name \in GroupNames THEN name ELSE "NULL"

hasLinkModel(g, link) == link \in RobotModel[g].links

\* (mutant) the IK pass is run whether or not the group has an allocator
ik_alloc_unchecked(g) == TRUE

\* getSolverAllocators().first, as the condition of the whole-group IK pass
ik_alloc(g) == RobotModel[g].ik_alloc

\* The objects the subgroup maps are keyed by, in the order they were allocated
GroupAlloc == <<"armA", "armB", "legs", "both", "mixed", "over">>

\* the groups that are keys of a subgroup map at or below group name
RECURSIVE MapKeys(_)
MapKeys(name) ==
  IF name \notin GroupNames THEN {}
  ELSE RobotModel[name].ik_subgroup_alloc
         \cup UNION {MapKeys(s) : s \in RobotModel[name].ik_subgroup_alloc}

(***************************************************************************)
(* Constraint messages.  ok: whether the constraint object configures;     *)
(* id: position of the message in the request it arrived in.               *)
(***************************************************************************)
Volumes == {1, 2}

\* lo: lower end of the tolerance band; bands with different lo do not intersect
JointMsgs == [var : Vars, ok : {TRUE}, lo : {0, 2}] \cup [var : Vars, ok : {FALSE}, lo : {0}]

LinkMsgs == [link : Links, ok : {TRUE}, vol : Volumes] \cup [link : Links, ok : {FALSE}, vol : {1}]

Tag(s) == [k \in DOMAIN s |-> [link |-> s[k].link, ok |-> s[k].ok, vol |-> s[k].vol, id |-> k]]

\* how many joint, position and orientation constraints a request of at most n carries
Shapes(n) ==
  {s \in (0..MaxJoint) \X (0..MaxPosition) \X (0..MaxOrientation) : s[1] + s[2] + s[3] <= n}

ConstraintSetsUpTo(n) ==
  UNION {{[joint_constraints |-> j, position_constraints |-> Tag(p),
           orientation_constraints |-> Tag(o)] :
            j \in [1..s[1] -> JointMsgs], p \in [1..s[2] -> LinkMsgs],
            o \in [1..s[3] -> LinkMsgs]} : s \in Shapes(n)}

ConstraintSets == ConstraintSetsUpTo(MaxConstraints)

(***************************************************************************)
(* Samplers.                                                               *)
(***************************************************************************)
NoSampler == [kind |-> "None"]

NoConstraint == [link |-> "", ok |-> FALSE, vol |-> 0, id |-> 0]

JointConstraintSampler(g, jc) == [kind |-> "Joint", group |-> g, jc |-> jc]

\* IKSamplingPose(pc, oc), IKSamplingPose(pc), IKSamplingPose(oc)
IKSamplingPose(pc, oc) == [pc |-> pc, oc |-> oc]

\* getSamplingVolume(): position tolerance volume times orientation tolerance volume,
\* each factor present only when the pose carries that constraint
getSamplingVolume(pose) ==
  (IF pose.pc = NoConstraint THEN 1 ELSE pose.pc.vol) *
  (IF pose.oc = NoConstraint THEN 1 ELSE pose.oc.vol)

IKConstraintSampler(g, link, pose) ==
  [kind |-> "IK", group |-> g, link |-> link, pc |-> pose.pc, oc |-> pose.oc,
   volume |-> getSamplingVolume(pose)]

UnionConstraintSampler(g, samplers) == [kind |-> "Union", group |-> g, samplers |-> samplers]

\* JointConstraint::configure / PositionConstraint::configure / OrientationConstraint::configure
ConstraintConfigure(msg) == msg.ok

\* JointConstraintSampler::configure(jc): fails when a constraint names a variable outside
\* the group or when the bounds of one variable are invalid (no value satisfies them all)
JointSamplerConfigure(g, jc) ==
  /\ \A i \in DOMAIN jc : jc[i].var \in RobotModel[g].vars
  /\ \A i, k \in DOMAIN jc : jc[i].var = jc[k].var => jc[i].lo = jc[k].lo

\* IKConstraintSampler::configure(pose): fails when a constraint object of the pose
\* is not configured
IKSamplerConfigure(pose) ==
  /\ pose.pc # NoConstraint \/ pose.oc # NoConstraint
  /\ pose.pc # NoConstraint => ConstraintConfigure(pose.pc)
  /\ pose.oc # NoConstraint => ConstraintConfigure(pose.oc)

(***************************************************************************)
(* selectDefaultSampler, joint coverage pass.                              *)
(***************************************************************************)
\* the working list jc: configured joint constraints on variables of the group
WorkingList(g, c) ==
  SelectSeq(c.joint_constraints,
            LAMBDA j : ConstraintConfigure(j) /\ j.var \in RobotModel[g].vars)

joint_coverage(g, jc) == [v \in RobotModel[g].vars |-> \E i \in DOMAIN jc : jc[i].var = v]

full_coverage(g, jc) == \A v \in RobotModel[g].vars : joint_coverage(g, jc)[v]

\* (mutant) a sampler covering every variable is kept as the fallback, not returned
JointCoveragePassKeepsLooking(g, c) ==
  LET jc == SelectSeq(c.joint_constraints,
                      LAMBDA j : ConstraintConfigure(j) /\ j.var \in RobotModel[g].vars)
  IN  IF jc # <<>> /\ JointSamplerConfigure(g, jc)
      THEN [returned |-> FALSE, result |-> NoSampler,
            joint_sampler |-> JointConstraintSampler(g, jc), built |-> {"Joint"}]
      ELSE [returned |-> FALSE, result |-> NoSampler, joint_sampler |-> NoSampler,
            built |-> {}]

\* returned: the function returns result at once; otherwise joint_sampler is the
\* fallback candidate (NoSampler when there is none)
JointCoveragePass(g, c) ==
  LET jc == WorkingList(g, c)
      none == [returned |-> FALSE, result |-> NoSampler, joint_sampler |-> NoSampler,
               built |-> {}]
  IN  IF c.joint_constraints = <<>> THEN none
      ELSE IF full_coverage(g, jc)
           THEN IF JointSamplerConfigure(g, jc)
                THEN [returned |-> TRUE, result |-> JointConstraintSampler(g, jc),
                      joint_sampler |-> NoSampler, built |-> {"Joint"}]
                ELSE [none EXCEPT !.built = {"Joint"}]
           ELSE IF jc # <<>>
                THEN IF JointSamplerConfigure(g, jc)
                     THEN [returned |-> FALSE, result |-> NoSampler,
                           joint_sampler |-> JointConstraintSampler(g, jc),
                           built |-> {"Joint"}]
                     ELSE [none EXCEPT !.built = {"Joint"}]
                ELSE none

(***************************************************************************)
(* Whole-group IK pass.  usedL is the candidate table; inserted lists its  *)
(* keys in the order they were first inserted; built tells whether an      *)
(* IKConstraintSampler was constructed.                                    *)
(***************************************************************************)
EmptyTable == [usedL |-> [l \in Links |-> NoSampler], inserted |-> <<>>, built |-> FALSE]

Keys(usedL) == {l \in Links : usedL[l] # NoSampler}

\* (mutant) the stored sampler is replaced only by a strictly smaller one
UseStrictlySmaller(stored, iks) == stored = NoSampler \/ iks.volume < stored.volume

\* bool use: whether the new sampler iks is stored in place of what usedL holds
Use(stored, iks) == ~(stored # NoSampler /\ stored.volume < iks.volume)

Insert(tab, link, iks) ==
  IF Use(tab.usedL[link], iks)
  THEN [usedL |-> [tab.usedL EXCEPT ![link] = iks],
        inserted |-> IF tab.usedL[link] = NoSampler THEN Append(tab.inserted, link)
                     ELSE tab.inserted,
        built |-> TRUE]
  ELSE [tab EXCEPT !.built = TRUE]

\* one (p, o) step of the nested loop
FullPoseStep(g, c, p, o, tab) ==
  LET pm == c.position_constraints[p]
      om == c.orientation_constraints[o]
  IN  IF pm.link = om.link /\ ConstraintConfigure(pm) /\ ConstraintConfigure(om)
      THEN IF IKSamplerConfigure(IKSamplingPose(pm, om))
           THEN Insert(tab, pm.link, IKConstraintSampler(g, pm.link, IKSamplingPose(pm, om)))
           ELSE [tab EXCEPT !.built = TRUE]
      ELSE tab

RECURSIVE FullPoseLoop(_, _, _, _)
FullPoseLoop(g, c, k, tab) ==
  LET nO == Len(c.orientation_constraints)
      n == Len(c.position_constraints) * nO
  IN  IF k > n THEN tab
      ELSE FullPoseLoop(g, c, k + 1,
                        FullPoseStep(g, c, ((k - 1) \div nO) + 1, ((k - 1) % nO) + 1, tab))

FullPoseMatching(g, c) == FullPoseLoop(g, c, 1, EmptyTable)

\* (mutant) the position constraint is used without looking at what configure returned
PositionStepUnchecked(g, c, p, usedL_fullPose, tab) ==
  LET pm == c.position_constraints[p]
  IN  IF pm.link \in usedL_fullPose THEN tab
      ELSE Insert(tab, pm.link,
                  IKConstraintSampler(g, pm.link, IKSamplingPose(pm, NoConstraint)))

PositionStep(g, c, p, usedL_fullPose, tab) ==
  LET pm == c.position_constraints[p]
  IN  IF pm.link \in usedL_fullPose THEN tab
      ELSE IF ConstraintConfigure(pm)
           THEN IF IKSamplerConfigure(IKSamplingPose(pm, NoConstraint))
                THEN Insert(tab, pm.link,
                            IKConstraintSampler(g, pm.link, IKSamplingPose(pm, NoConstraint)))
                ELSE [tab EXCEPT !.built = TRUE]
           ELSE tab

RECURSIVE PositionLoop(_, _, _, _, _)
PositionLoop(g, c, p, usedL_fullPose, tab) ==
  IF p > Len(c.position_constraints) THEN tab
  ELSE PositionLoop(g, c, p + 1, usedL_fullPose, PositionStep(g, c, p, usedL_fullPose, tab))

PositionOnlyMatching(g, c, usedL_fullPose, tab) == PositionLoop(g, c, 1, usedL_fullPose, tab)

\* (mutant) the links of the full-pose pass are not skipped
OrientationStepNoExclusion(g, c, o, usedL_fullPose, tab) ==
  LET om == c.orientation_constraints[o]
  IN  IF ConstraintConfigure(om)
      THEN IF IKSamplerConfigure(IKSamplingPose(NoConstraint, om))
           THEN Insert(tab, om.link,
                       IKConstraintSampler(g, om.link, IKSamplingPose(NoConstraint, om)))
           ELSE [tab EXCEPT !.built = TRUE]
      ELSE tab

OrientationStep(g, c, o, usedL_fullPose, tab) ==
  LET om == c.orientation_constraints[o]
  IN  IF om.link \in usedL_fullPose THEN tab
      ELSE IF ConstraintConfigure(om)
           THEN IF IKSamplerConfigure(IKSamplingPose(NoConstraint, om))
                THEN Insert(tab, om.link,
                            IKConstraintSampler(g, om.link, IKSamplingPose(NoConstraint, om)))
                ELSE [tab EXCEPT !.built = TRUE]
           ELSE tab

RECURSIVE OrientationLoop(_, _, _, _, _)
OrientationLoop(g, c, o, usedL_fullPose, tab) ==
  IF o > Len(c.orientation_constraints) THEN tab
  ELSE OrientationLoop(g, c, o + 1, usedL_fullPose, OrientationStep(g, c, o, usedL_fullPose, tab))

OrientationOnlyMatching(g, c, usedL_fullPose, tab) ==
  OrientationLoop(g, c, 1, usedL_fullPose, tab)

\* the keys of usedL in the order the map iterates them
MapOrder(usedL) == SelectSeq(LinkOrder, LAMBDA l : usedL[l] # NoSampler)

\* (mutant) the comparison turned around
Larger(v, msv) == msv < v

\* (mutant) an equal volume replaces the minimum too
SmallerOrEqual(v, msv) == v <= msv

\* v < msv: whether the entry under the iterator replaces the minimum found so far
Smaller(v, msv) == v < msv

RECURSIVE MinVolumeLoop(_, _, _, _)
MinVolumeLoop(usedL, keys, k, iks) ==
  IF k > Len(keys) THEN iks
  ELSE MinVolumeLoop(usedL, keys, k + 1,
                     IF Smaller(usedL[keys[k]].volume, iks.volume) THEN usedL[keys[k]] ELSE iks)

MinVolumeSampler(usedL) ==
  LET keys == MapOrder(usedL) IN MinVolumeLoop(usedL, keys, 2, usedL[keys[1]])

\* (mutant) the IK sampler returned alone even when a joint sampler is kept
ResolveIKAlone(g, samplers, usedL) ==
  LET n == Cardinality(Keys(usedL))
  IN  IF n = 0 THEN NoSampler
      ELSE IF n = 1 THEN usedL[MapOrder(usedL)[1]] ELSE MinVolumeSampler(usedL)

\* (mutant) with several candidate links nothing is returned and the subgroups are tried
ResolveIKSingleOnly(g, samplers, usedL) ==
  LET n == Cardinality(Keys(usedL))
      iks == usedL[MapOrder(usedL)[1]]
  IN  IF n # 1 THEN NoSampler
      ELSE IF samplers = <<>> THEN iks
           ELSE UnionConstraintSampler(g, Append(samplers, iks))

\* usedL.size() == 1 / usedL.size() > 1: the sampler returned, NoSampler when usedL is empty
ResolveIK(g, samplers, usedL) ==
  LET n == Cardinality(Keys(usedL))
      iks == IF n = 1 THEN usedL[MapOrder(usedL)[1]] ELSE MinVolumeSampler(usedL)
  IN  IF n = 0 THEN NoSampler
      ELSE IF samplers = <<>> THEN iks
           ELSE UnionConstraintSampler(g, Append(samplers, iks))

\* the whole pass, as the function runs it
WholeGroupIK(g, c) ==
  LET full == FullPoseMatching(g, c)
      usedL_fullPose == Keys(full.usedL)
  IN  OrientationOnlyMatching(g, c, usedL_fullPose,
                              PositionOnlyMatching(g, c, usedL_fullPose, full))

(***************************************************************************)
(* Subgroup pass.                                                          *)
(***************************************************************************)
\* the subgroup map is keyed by object address: its iteration order is the order of
\* the addresses, ptrs being the group objects by increasing address
\* (mutant) the group's own allocator is found in its subgroup map too
SubgroupOrderWithSelf(g, ptrs) ==
  Append(SelectSeq(ptrs, LAMBDA s : s \in RobotModel[g].ik_subgroup_alloc), g)

SubgroupOrder(g, ptrs) == SelectSeq(ptrs, LAMBDA s : s \in RobotModel[g].ik_subgroup_alloc)

Pick(s, I) ==
  LET idx == SelectSeq([k \in 1..Len(s) |-> k], LAMBDA k : k \in I)
  IN  [n \in 1..Len(idx) |-> s[idx[n]]]

\* (mutant) the used set is not consulted
ClaimsAgain(sub, msg, p, used) == hasLinkModel(sub, msg.link)

\* whether index p, not yet in used, is copied into the sub-constraint-set of sub
Claims(sub, msg, p, used) == hasLinkModel(sub, msg.link) /\ p \notin used

ClaimedP(sub, c, usedP) ==
  {p \in DOMAIN c.position_constraints : Claims(sub, c.position_constraints[p], p, usedP)}

ClaimedO(sub, c, usedO) ==
  {o \in DOMAIN c.orientation_constraints : Claims(sub, c.orientation_constraints[o], o, usedO)}

\* (mutant) the joint constraints are handed down as well
sub_constr_with_joints(sub, c, usedP, usedO) ==
  [joint_constraints |-> c.joint_constraints,
   position_constraints |-> Pick(c.position_constraints, ClaimedP(sub, c, usedP)),
   orientation_constraints |-> Pick(c.orientation_constraints, ClaimedO(sub, c, usedO))]

sub_constr(sub, c, usedP, usedO) ==
  [joint_constraints |-> <<>>,
   position_constraints |-> Pick(c.position_constraints, ClaimedP(sub, c, usedP)),
   orientation_constraints |-> Pick(c.orientation_constraints, ClaimedO(sub, c, usedO))]

IsEmptyConstr(c) == c.orientation_constraints = <<>> /\ c.position_constraints = <<>>

(***************************************************************************)
(* selectDefaultSampler as a function of its arguments (and of the address *)
(* order of the group objects).                                            *)
(***************************************************************************)
RECURSIVE selectDefaultSamplerFn(_, _, _)
RECURSIVE SubgroupLoopFn(_, _, _, _, _, _, _)

\* the loop over ik_subgroup_alloc from its k-th entry on: the list samplers at its end
SubgroupLoopFn(g, c, ptrs, k, usedP, usedO, samplers) ==
  LET order == SubgroupOrder(g, ptrs)
  IN  IF k > Len(order) THEN samplers
      ELSE LET sub == order[k]
               sc == sub_constr(sub, c, usedP, usedO)
               cs == IF IsEmptyConstr(sc) THEN NoSampler
                     ELSE selectDefaultSamplerFn(sub, sc, ptrs)
           IN  SubgroupLoopFn(g, c, ptrs, k + 1,
                              usedP \cup ClaimedP(sub, c, usedP),
                              usedO \cup ClaimedO(sub, c, usedO),
                              IF cs # NoSampler THEN Append(samplers, cs) ELSE samplers)

selectDefaultSamplerFn(name, c, ptrs) ==
  IF getJointModelGroup(name) = "NULL" THEN NoSampler
  ELSE LET g == getJointModelGroup(name)
           jp == JointCoveragePass(g, c)
           samplers == IF jp.joint_sampler # NoSampler THEN <<jp.joint_sampler>> ELSE <<>>
           ik == IF ik_alloc(g)
                 THEN ResolveIK(g, samplers, WholeGroupIK(g, c).usedL)
                 ELSE NoSampler
           subs == SubgroupLoopFn(g, c, ptrs, 1, {}, {}, samplers)
       IN  IF jp.returned THEN jp.result
           ELSE IF ik # NoSampler THEN ik
           ELSE IF Len(subs) > Len(samplers) THEN UnionConstraintSampler(g, subs)
           ELSE jp.joint_sampler

(***************************************************************************)
(* State.                                                                  *)
(***************************************************************************)
VARIABLES
  group_name,      \* the request: group name
  constr,          \* the request: constraints
  ptrs,            \* the group objects that key subgroup maps, by increasing address
  sampler_alloc_,  \* number of registered allocators
  pc,              \* "select", "default", "done"
  i,               \* selectSampler's loop index
  queried,         \* the canService answers obtained, in order
  allocated,       \* what the alloc calls made returned, in order
  stack,           \* frames of selectDefaultSampler, innermost last
  calls,           \* number of invocations of selectDefaultSampler so far
  result,          \* what the call returned
  constructed,     \* kinds of sampler objects constructed so far
  trajectory,      \* a KinematicTrajectory, the object swap is called on
  other,           \* a second KinematicTrajectory, the argument of swap
  orig,            \* trajectory and other as they were before the swaps made in a row
  swaps            \* number of swaps made in a row

vars == <<group_name, constr, ptrs, sampler_alloc_, pc, i, queried, allocated, stack, calls,
          result, constructed, trajectory, other, orig, swaps>>

\* KinematicTrajectory(kmodel, group): no waypoints yet
KinematicTrajectory(kmodel, group) ==
  [kmodel_ |-> kmodel, group_ |-> group, waypoints_ |-> <<>>, duration_from_previous_ |-> <<>>]

\* no trajectory is in use while a sampler is selected
NoTrajectories ==
  /\ trajectory = KinematicTrajectory("m1", "NULL")
  /\ other = KinematicTrajectory("m1", "NULL")
  /\ orig = <<trajectory, other>>
  /\ swaps = 0

Frame(g, c) ==
  [group_name |-> g, constr |-> c, pc |-> "joint",
   joint_sampler |-> NoSampler, samplers |-> <<>>,
   tab |-> EmptyTable, usedL_fullPose |-> {},
   it |-> 1, usedP |-> {}, usedO |-> {}, claimed |-> <<>>,
   some_sampler_valid |-> FALSE, result |-> NoSampler]

top == stack[Len(stack)]

SetTop(f) == [stack EXCEPT ![Len(stack)] = f]

Running(phase) == pc = "default" /\ stack # <<>> /\ top.pc = phase

Reverse(s) == [k \in 1..Len(s) |-> s[Len(s) + 1 - k]]

\* the map keys a call for group name meets, in an order their addresses can have
AddressOrders(name) ==
  {SelectSeq(a, LAMBDA s : s \in MapKeys(name)) : a \in {GroupAlloc, Reverse(GroupAlloc)}}

\* a direct call of the static selectDefaultSampler
Init ==
  /\ group_name \in GroupNames \cup {"unknown"}
  /\ constr \in ConstraintSets
  /\ ptrs \in AddressOrders(group_name)
  /\ sampler_alloc_ = 0
  /\ pc = "default"
  /\ i = 1
  /\ queried = <<>>
  /\ allocated = <<>>
  /\ stack = <<Frame(group_name, constr)>>
  /\ calls = 1
  /\ result = NoSampler
  /\ constructed = {}
  /\ NoTrajectories

(***************************************************************************)
(* selectDefaultSampler, one action per phase of the innermost invocation. *)
(***************************************************************************)
Unchanged ==
  UNCHANGED <<group_name, constr, ptrs, sampler_alloc_, i, queried, allocated,
              trajectory, other, orig, swaps>>

\* lines 58-129
JointCoverage ==
  /\ Running("joint")
  /\ IF getJointModelGroup(top.group_name) = "NULL"
     THEN /\ stack' = SetTop([top EXCEPT !.pc = "return", !.result = NoSampler])
          /\ UNCHANGED constructed
     ELSE LET g == getJointModelGroup(top.group_name)
              jp == JointCoveragePass(g, top.constr)
          IN  /\ constructed' = constructed \cup jp.built
              /\ IF jp.returned
                 THEN stack' = SetTop([top EXCEPT !.pc = "return", !.result = jp.result])
                 ELSE stack' = SetTop([top EXCEPT
                        !.joint_sampler = jp.joint_sampler,
                        !.samplers = IF jp.joint_sampler # NoSampler
                                     THEN <<jp.joint_sampler>> ELSE <<>>,
                        !.pc = IF ik_alloc(g) THEN "full_pose" ELSE "subgroups"])
  /\ UNCHANGED <<pc, result, calls>>
  /\ Unchanged

Built(tab) == IF tab.built THEN {"IK"} ELSE {}

\* lines 140-165
FullPose ==
  /\ Running("full_pose")
  /\ LET tab == FullPoseMatching(top.group_name, top.constr)
     IN  /\ stack' = SetTop([top EXCEPT !.tab = tab, !.usedL_fullPose = Keys(tab.usedL),
                                        !.pc = "position"])
         /\ constructed' = constructed \cup Built(tab)
  /\ UNCHANGED <<pc, result, calls>>
  /\ Unchanged

\* lines 167-191
PositionOnly ==
  /\ Running("position")
  /\ LET tab == PositionOnlyMatching(top.group_name, top.constr, top.usedL_fullPose, top.tab)
     IN  /\ stack' = SetTop([top EXCEPT !.tab = tab, !.pc = "orientation"])
         /\ constructed' = constructed \cup Built(tab)
  /\ UNCHANGED <<pc, result, calls>>
  /\ Unchanged

\* lines 193-217
OrientationOnly ==
  /\ Running("orientation")
  /\ LET tab == OrientationOnlyMatching(top.group_name, top.constr, top.usedL_fullPose, top.tab)
     IN  /\ stack' = SetTop([top EXCEPT !.tab = tab, !.pc = "resolve"])
         /\ constructed' = constructed \cup Built(tab)
  /\ UNCHANGED <<pc, result, calls>>
  /\ Unchanged

\* lines 219-255
Resolve ==
  /\ Running("resolve")
  /\ LET r == ResolveIK(top.group_name, top.samplers, top.tab.usedL)
     IN  IF r # NoSampler
         THEN /\ stack' = SetTop([top EXCEPT !.pc = "return", !.result = r])
              /\ constructed' = constructed \cup (IF r.kind = "Union" THEN {"Union"} ELSE {})
         ELSE /\ stack' = SetTop([top EXCEPT !.pc = "subgroups"])
              /\ UNCHANGED constructed
  /\ UNCHANGED <<pc, result, calls>>
  /\ Unchanged

\* lines 266-290: one iteration of the loop over ik_subgroup_alloc, up to the recursive call
SubgroupIteration ==
  /\ Running("subgroups")
  /\ top.it <= Len(SubgroupOrder(top.group_name, ptrs))
  /\ LET sub == SubgroupOrder(top.group_name, ptrs)[top.it]
         P == ClaimedP(sub, top.constr, top.usedP)
         O == ClaimedO(sub, top.constr, top.usedO)
         sc == sub_constr(sub, top.constr, top.usedP, top.usedO)
         f == [top EXCEPT !.usedP = top.usedP \cup P, !.usedO = top.usedO \cup O,
                          !.claimed = Append(top.claimed, [sub |-> sub, P |-> P, O |-> O])]
     IN  IF ~IsEmptyConstr(sc)
         THEN /\ stack' = Append(SetTop([f EXCEPT !.pc = "call"]), Frame(sub, sc))
              /\ calls' = calls + 1
         ELSE /\ stack' = SetTop([f EXCEPT !.it = top.it + 1])
              /\ UNCHANGED calls
  /\ UNCHANGED <<pc, result, constructed>>
  /\ Unchanged

\* lines 290-298: the recursive call returns cs to its caller
ReturnToCaller ==
  /\ pc = "default"
  /\ Len(stack) >= 2
  /\ top.pc = "return"
  /\ LET cs == top.result
         caller == stack[Len(stack) - 1]
         f == IF cs # NoSampler
              THEN [caller EXCEPT !.some_sampler_valid = TRUE,
                                  !.samplers = Append(caller.samplers, cs)]
              ELSE caller
     IN  stack' = [SubSeq(stack, 1, Len(stack) - 1) EXCEPT
                     ![Len(stack) - 1] = [f EXCEPT !.it = caller.it + 1, !.pc = "subgroups"]]
  /\ UNCHANGED <<pc, result, constructed, calls>>
  /\ Unchanged

\* lines 259, 300-316: past the loop (or no subgroup allocators at all)
Finish ==
  /\ Running("subgroups")
  /\ top.it > Len(SubgroupOrder(top.group_name, ptrs))
  /\ IF top.some_sampler_valid
     THEN /\ stack' = SetTop([top EXCEPT !.pc = "return",
                 !.result = UnionConstraintSampler(top.group_name, top.samplers)])
          /\ constructed' = constructed \cup {"Union"}
     ELSE /\ stack' = SetTop([top EXCEPT !.pc = "return", !.result = top.joint_sampler])
          /\ UNCHANGED constructed
  /\ UNCHANGED <<pc, result, calls>>
  /\ Unchanged

\* the outermost invocation returns to whoever called it
ReturnResult ==
  /\ pc = "default"
  /\ Len(stack) = 1
  /\ top.pc = "return"
  /\ result' = top.result
  /\ stack' = <<>>
  /\ pc' = "done"
  /\ UNCHANGED <<constructed, calls>>
  /\ Unchanged

NextDefault ==
  \/ JointCoverage
  \/ FullPose
  \/ PositionOnly
  \/ OrientationOnly
  \/ Resolve
  \/ SubgroupIteration
  \/ ReturnToCaller
  \/ Finish
  \/ ReturnResult

Spec == Init /\ [][NextDefault]_vars

(***************************************************************************)
(* selectSampler: the registered allocators, then the default.             *)
(***************************************************************************)
\* an empty pointer, or a sampler of the allocator's own making
AllocResults(a) == {NoSampler, [kind |-> "Custom", alloc |-> a]}

\* (mutant) an empty alloc result is not returned: the loop goes on
ReturnsIfAllocated(can, r) == can /\ r # NoSampler

\* lines 47-48: whether the function returns r, the result of alloc, after the answer can
Returns(can, r) == can

\* a call of selectSampler on a manager with sampler_alloc_ registered allocators
InitSelect ==
  /\ group_name \in GroupNames \cup {"unknown"}
  /\ constr \in ConstraintSetsUpTo(MaxSelectConstraints)
  /\ ptrs \in AddressOrders(group_name)
  /\ sampler_alloc_ \in 0..MaxAlloc
  /\ pc = "select"
  /\ i = 1
  /\ queried = <<>>
  /\ allocated = <<>>
  /\ stack = <<>>
  /\ calls = 0
  /\ result = NoSampler
  /\ constructed = {}
  /\ NoTrajectories

\* lines 46-48: canService of allocator i, and alloc when it answers true
CanService ==
  /\ pc = "select"
  /\ i <= sampler_alloc_
  /\ \E can \in BOOLEAN :
       /\ queried' = Append(queried, [by |-> i, can |-> can])
       /\ IF can
          THEN \E r \in AllocResults(i) :
                 /\ allocated' = Append(allocated, [by |-> i, sampler |-> r])
                 /\ IF Returns(can, r)
                    THEN result' = r /\ pc' = "done" /\ i' = i
                    ELSE i' = i + 1 /\ UNCHANGED <<result, pc>>
          ELSE i' = i + 1 /\ UNCHANGED <<result, pc, allocated>>
  /\ UNCHANGED <<group_name, constr, ptrs, sampler_alloc_, stack, calls, constructed,
                 trajectory, other, orig, swaps>>

\* line 51
DelegateDefault ==
  /\ pc = "select"
  /\ i > sampler_alloc_
  /\ stack' = <<Frame(group_name, constr)>>
  /\ calls' = calls + 1
  /\ pc' = "default"
  /\ UNCHANGED <<group_name, constr, ptrs, sampler_alloc_, i, queried, allocated, result,
                 constructed, trajectory, other, orig, swaps>>

Next ==
  \/ CanService
  \/ DelegateDefault
  \/ NextDefault

SpecSelect == InitSelect /\ [][Next]_vars

\* the machine computes the function
MachineIsFunction ==
  (pc = "done" /\ calls > 0) => result = selectDefaultSamplerFn(group_name, constr, ptrs)

(***************************************************************************)
(* KinematicTrajectory: swap, reverse and clear on two trajectories.        *)
(***************************************************************************)
KinematicModels == {"m1", "m2"}

\* group_: a group of the model, or NULL
TrajectoryGroups == {"NULL", "arm"}

KinematicStates == {"s1", "s2"}

Durations == {1, 2}

\* trajectories of model kmodel with at most MaxWaypoints waypoints: one duration for
\* each waypoint, or no durations at all (as swap(std::vector&) leaves them)
Trajectories(kmodel) ==
  UNION {{[KinematicTrajectory(kmodel, x[2]) EXCEPT !.waypoints_ = w,
                                                     !.duration_from_previous_ = d] :
            w \in [1..x[1] -> KinematicStates],
            d \in [1..x[1] -> Durations] \cup {<<>>}} :
         x \in (0..MaxWaypoints) \X TrajectoryGroups}

\* this->swap(oth): both objects after the call.  The last statement swaps
\* duration_from_previous_ with itself, which leaves it as it is
swap(this, oth) ==
  [this |-> [kmodel_ |-> oth.kmodel_, group_ |-> oth.group_, waypoints_ |-> oth.waypoints_,
             duration_from_previous_ |-> this.duration_from_previous_],
   other |-> [kmodel_ |-> this.kmodel_, group_ |-> this.group_,
              waypoints_ |-> this.waypoints_,
              duration_from_previous_ |-> oth.duration_from_previous_]]

\* push_back(front()), std::reverse, pop_back
reverse(this) ==
  LET d == this.duration_from_previous_
  IN  [this EXCEPT !.waypoints_ = Reverse(this.waypoints_),
                   !.duration_from_previous_ =
                      IF d # <<>>
                      THEN SubSeq(Reverse(Append(d, d[1])), 1, Len(d))
                      ELSE d]

clear(this) == [this EXCEPT !.waypoints_ = <<>>, !.duration_from_previous_ = <<>>]

\* no sampler is being selected
SamplersIdle ==
  /\ group_name = "unknown"
  /\ constr = [joint_constraints |-> <<>>, position_constraints |-> <<>>,
               orientation_constraints |-> <<>>]
  /\ ptrs = <<>>
  /\ sampler_alloc_ = 0
  /\ pc = "trajectory"
  /\ i = 1
  /\ queried = <<>>
  /\ allocated = <<>>
  /\ stack = <<>>
  /\ calls = 0
  /\ result = NoSampler
  /\ constructed = {}

SamplersUnchanged ==
  UNCHANGED <<group_name, constr, ptrs, sampler_alloc_, pc, i, queried, allocated, stack,
              calls, result, constructed>>

InitSwap ==
  /\ SamplersIdle
  /\ trajectory \in Trajectories("m1")
  /\ other \in UNION {Trajectories(k) : k \in KinematicModels}
  /\ orig = <<trajectory, other>>
  /\ swaps = 0

\* trajectory.swap(other)
SwapOther ==
  /\ pc = "trajectory"
  /\ swaps < MaxSwaps
  /\ trajectory' = swap(trajectory, other).this
  /\ other' = swap(trajectory, other).other
  /\ swaps' = swaps + 1
  /\ UNCHANGED orig
  /\ SamplersUnchanged

\* trajectory.reverse()
ReverseTrajectory ==
  /\ pc = "trajectory"
  /\ trajectory' = reverse(trajectory)
  /\ orig' = <<trajectory', other>>
  /\ swaps' = 0
  /\ UNCHANGED other
  /\ SamplersUnchanged

\* trajectory.clear()
ClearTrajectory ==
  /\ pc = "trajectory"
  /\ trajectory' = clear(trajectory)
  /\ orig' = <<trajectory', other>>
  /\ swaps' = 0
  /\ UNCHANGED other
  /\ SamplersUnchanged

NextSwap ==
  \/ SwapOther
  \/ ReverseTrajectory
  \/ ClearTrajectory

SpecSwap == InitSwap /\ [][NextSwap]_vars

(***************************************************************************)
(* Properties.                                                             *)
(***************************************************************************)
Claimed == {k \in DOMAIN queried : queried[k].can}

\* C1: the allocators are asked in registration order; the first one that answers true
\* ends the search: what its alloc returned is the result (empty or not), nobody is asked
\* after it and selectDefaultSampler is not invoked; selectDefaultSampler is invoked only
\* after every registered allocator answered false.
C1_FirstMatchCommits ==
  /\ Len(queried) <= sampler_alloc_
  /\ \A k \in DOMAIN queried : queried[k].by = k
  /\ \A k \in Claimed : k = Len(queried)
  /\ Claimed # {} =>
        /\ pc = "done" /\ calls = 0 /\ stack = <<>> /\ constructed = {}
        /\ Len(allocated) = 1
        /\ allocated[1].by = Len(queried)
        /\ result = allocated[1].sampler
  /\ Claimed = {} => allocated = <<>>
  /\ calls > 0 => Len(queried) = sampler_alloc_ /\ Claimed = {}

\* the second of two allocators claims the request and allocates nothing
C1_Witness ==
  /\ pc = "done"
  /\ sampler_alloc_ = 2
  /\ Len(queried) = 2 /\ ~queried[1].can /\ queried[2].can
  /\ result = NoSampler
  /\ calls = 0

\* the invocations in progress, and those among them that have their result
Frames == {stack[k] : k \in DOMAIN stack}

Returned == {f \in Frames : f.pc = "return"}

\* the configured joint constraints of c name every variable of group name
CoversEveryVariable(name, c) ==
  /\ name \in GroupNames
  /\ \A v \in RobotModel[name].vars :
       \E k \in DOMAIN c.joint_constraints :
         c.joint_constraints[k].var = v /\ ConstraintConfigure(c.joint_constraints[k])

\* C2 (as claimed): whenever joint constraints cover every variable of the group, the
\* result is a Joint Sampler and no IK or Union Sampler is constructed.
C2_FullCoverageAlwaysJoint ==
  (pc = "done" /\ CoversEveryVariable(group_name, constr)) =>
     (result.kind = "Joint" /\ constructed \subseteq {"Joint"})

\* C2 (amended): whenever joint constraints cover every variable of the group and the
\* Joint Sampler built from them configures, the result is that Joint Sampler, no IK or
\* Union Sampler is constructed and no subgroup is entered, whatever position and
\* orientation constraints are present.
C2_FullCoveragePrecedence ==
  (/\ pc = "done"
   /\ CoversEveryVariable(group_name, constr)
   /\ JointSamplerConfigure(group_name, WorkingList(group_name, constr))) =>
     (/\ result = JointConstraintSampler(group_name, WorkingList(group_name, constr))
      /\ constructed \subseteq {"Joint"}
      /\ calls = 1)

\* full coverage of a group with an IK allocator, next to a configurable position constraint
C2_Witness ==
  /\ pc = "done"
  /\ CoversEveryVariable(group_name, constr)
  /\ RobotModel[group_name].ik_alloc
  /\ \E p \in DOMAIN constr.position_constraints : constr.position_constraints[p].ok
  /\ result.kind = "Joint"

\* the IK sampler of a result of the whole-group IK pass
IKOf(r) == IF r.kind = "Union" THEN r.samplers[Len(r.samplers)] ELSE r

IKCount(r) ==
  IF r.kind = "IK" THEN 1
  ELSE IF r.kind = "Union"
       THEN Cardinality({k \in DOMAIN r.samplers : r.samplers[k].kind = "IK"})
       ELSE 0

\* C3: when the candidate table of the whole-group IK pass ends with more than one link,
\* the result holds exactly one IK sampler, an entry of the table, and none of the table's
\* entries has a smaller sampling volume.
C3_MinimumVolumeKept ==
  \A f \in Returned :
    Cardinality(Keys(f.tab.usedL)) > 1 =>
      /\ IKCount(f.result) = 1
      /\ \E l \in Keys(f.tab.usedL) : IKOf(f.result) = f.tab.usedL[l]
      /\ \A l \in Keys(f.tab.usedL) : IKOf(f.result).volume <= f.tab.usedL[l].volume
      /\ f.result.kind = "Union" => f.result.samplers = <<f.joint_sampler, IKOf(f.result)>>

\* two position constraints, the tighter one on the link the map iterates last
C3_Witness ==
  \E f \in Returned :
    /\ Keys(f.tab.usedL) = {"L1", "L2"}
    /\ f.tab.usedL["L2"].volume < f.tab.usedL["L1"].volume
    /\ Len(f.constr.position_constraints) = 2
    /\ f.constr.orientation_constraints = <<>>
    /\ f.result = f.tab.usedL["L2"]

\* C4: in one subgroup pass no position index and no orientation index is handed to two
\* subgroups, and every index handed to a subgroup is of a constraint on one of its links;
\* the invocation for the subgroup gets exactly the constraints at those indices.
C4_DisjointPartition ==
  \A d \in DOMAIN stack :
    LET f == stack[d] IN
      /\ \A a, b \in DOMAIN f.claimed :
           a # b => (f.claimed[a].P \cap f.claimed[b].P = {} /\ f.claimed[a].O \cap f.claimed[b].O = {})
      /\ \A a \in DOMAIN f.claimed :
           /\ \A p \in f.claimed[a].P :
                hasLinkModel(f.claimed[a].sub, f.constr.position_constraints[p].link)
           /\ \A o \in f.claimed[a].O :
                hasLinkModel(f.claimed[a].sub, f.constr.orientation_constraints[o].link)
      /\ f.usedP = UNION {f.claimed[a].P : a \in DOMAIN f.claimed}
      /\ f.usedO = UNION {f.claimed[a].O : a \in DOMAIN f.claimed}
      /\ f.pc = "call" =>
           LET cl == f.claimed[Len(f.claimed)]
               sub == stack[d + 1]
           IN  /\ sub.group_name = cl.sub
               /\ sub.constr.joint_constraints = <<>>
               /\ sub.constr.position_constraints = Pick(f.constr.position_constraints, cl.P)
               /\ sub.constr.orientation_constraints = Pick(f.constr.orientation_constraints, cl.O)

\* two subgroups that share link L1: the first took the constraints on L1, the second
\* was left the one on L2
C4_Witness ==
  \E f \in Frames :
    /\ f.group_name = "over"
    /\ Len(f.claimed) = 2
    /\ f.claimed[1].sub = "legs"
    /\ f.claimed[1].P # {} /\ f.claimed[1].O # {}
    /\ f.claimed[2].P # {}
    /\ \A p \in f.claimed[2].P : f.constr.position_constraints[p].link = "L2"

\* one configurable position constraint on a link of each of two subgroups without
\* a link in common, and nothing else
OnePositionEach(name, c) ==
  /\ name \in GroupNames
  /\ RobotModel[name].ik_subgroup_alloc = {"armA", "armB"}
  /\ c.joint_constraints = <<>>
  /\ c.orientation_constraints = <<>>
  /\ Len(c.position_constraints) = 2
  /\ c.position_constraints[1].link # c.position_constraints[2].link
  /\ \A p \in 1..2 : c.position_constraints[p].ok

\* the result is a union of two IK samplers, of armA for L1 and of armB for L2
UnionOfTwo(r) ==
  /\ r.kind = "Union"
  /\ Len(r.samplers) = 2
  /\ \A k \in 1..2 : r.samplers[k].kind = "IK"
  /\ {<<r.samplers[k].group, r.samplers[k].link>> : k \in 1..2} = {<<"armA", "L1">>, <<"armB", "L2">>}

\* C5 (as claimed): for a group with two IK-capable subgroups without a link in common and
\* a position constraint on a link of each, the result is a Union Sampler of exactly two
\* samplers, one per subgroup.
C5_TwoSubgroupsAlwaysUnion ==
  (pc = "done" /\ OnePositionEach(group_name, constr)) => UnionOfTwo(result)

\* C5 (amended): the same for a group that has no IK allocator of its own.
C5_TwoSubgroupsUnion ==
  (pc = "done" /\ OnePositionEach(group_name, constr) /\ ~RobotModel[group_name].ik_alloc) =>
     (/\ UnionOfTwo(result)
      /\ \A k \in 1..2 : result.samplers[k].group = SubgroupOrder(group_name, ptrs)[k])

C5_Witness ==
  /\ pc = "done"
  /\ group_name = "both"
  /\ OnePositionEach(group_name, constr)
  /\ UnionOfTwo(result)

\* the variables a sampler assigns: those its joint constraints name, those of the group
\* an IK sampler was built for, those of the members of a union
RECURSIVE Controlled(_)
Controlled(r) ==
  IF r.kind = "Joint" THEN {r.jc[k].var : k \in DOMAIN r.jc}
  ELSE IF r.kind = "IK" THEN RobotModel[r.group].vars
  ELSE IF r.kind = "Union" THEN UNION {Controlled(r.samplers[k]) : k \in DOMAIN r.samplers}
  ELSE {}

RECURSIVE MembersDisjoint(_)
MembersDisjoint(r) ==
  r.kind = "Union" =>
    /\ \A a, b \in DOMAIN r.samplers :
         a # b => Controlled(r.samplers[a]) \cap Controlled(r.samplers[b]) = {}
    /\ \A a \in DOMAIN r.samplers : MembersDisjoint(r.samplers[a])

\* C6: in every Union Sampler an invocation returns, the members control pairwise
\* disjoint sets of variables.
C6_UnionMembersDisjoint ==
  \A f \in Returned : MembersDisjoint(f.result)

\* the constraint set with the constraints that do not configure removed
Configurable(c) ==
  [joint_constraints |-> SelectSeq(c.joint_constraints, ConstraintConfigure),
   position_constraints |-> SelectSeq(c.position_constraints, ConstraintConfigure),
   orientation_constraints |-> SelectSeq(c.orientation_constraints, ConstraintConfigure)]

\* C7: the result for a constraint set is the result for the set with every constraint
\* that fails to configure removed: same kind, same members, same constraints.
C7_FailedConstraintsDropped ==
  pc = "done" => result = selectDefaultSamplerFn(group_name, Configurable(constr), ptrs)

\* a request with a constraint that does not configure, answered by a union
C7_Witness ==
  /\ pc = "done"
  /\ Configurable(constr) # constr
  /\ result.kind = "Union"

\* C8: a group without IK allocator and without subgroup allocators, asked with no joint
\* constraints, gets the empty result; nothing is constructed on the way.
C8_ExhaustionEmpty ==
  (/\ pc = "done"
   /\ group_name \in GroupNames
   /\ ~RobotModel[group_name].ik_alloc
   /\ RobotModel[group_name].ik_subgroup_alloc = {}
   /\ constr.joint_constraints = <<>>) =>
     (result = NoSampler /\ constructed = {} /\ calls = 1)

\* position and orientation constraints that configure, on a link of the group
C8_Witness ==
  /\ pc = "done"
  /\ group_name = "legs"
  /\ constr.joint_constraints = <<>>
  /\ \E p \in DOMAIN constr.position_constraints :
       constr.position_constraints[p].ok /\ constr.position_constraints[p].link = "L1"
  /\ \E o \in DOMAIN constr.orientation_constraints : constr.orientation_constraints[o].ok
  /\ result = NoSampler

\* the poses IK samplers are built from for link l, in the order the passes build them
PairIndex(c) ==
  [k \in 1..(Len(c.position_constraints) * Len(c.orientation_constraints)) |->
     <<((k - 1) \div Len(c.orientation_constraints)) + 1,
       ((k - 1) % Len(c.orientation_constraints)) + 1>>]

FullPoseCandidates(c, l) ==
  LET pairs == SelectSeq(PairIndex(c),
                 LAMBDA t : /\ c.position_constraints[t[1]].link = l
                            /\ c.orientation_constraints[t[2]].link = l
                            /\ c.position_constraints[t[1]].ok
                            /\ c.orientation_constraints[t[2]].ok)
  IN  [k \in DOMAIN pairs |->
         [pc |-> c.position_constraints[pairs[k][1]], oc |-> c.orientation_constraints[pairs[k][2]]]]

PositionCandidates(c, l) ==
  LET ps == SelectSeq(c.position_constraints, LAMBDA m : m.link = l /\ m.ok)
  IN  [k \in DOMAIN ps |-> [pc |-> ps[k], oc |-> NoConstraint]]

OrientationCandidates(c, l) ==
  LET os == SelectSeq(c.orientation_constraints, LAMBDA m : m.link = l /\ m.ok)
  IN  [k \in DOMAIN os |-> [pc |-> NoConstraint, oc |-> os[k]]]

\* the candidates built for link l by the time the frame is at f.pc
CandidatesSoFar(f, l) ==
  LET full == FullPoseCandidates(f.constr, l)
      pos == IF full = <<>> THEN PositionCandidates(f.constr, l) ELSE <<>>
      ori == IF full = <<>> THEN OrientationCandidates(f.constr, l) ELSE <<>>
  IN  IF f.pc = "position" THEN full
      ELSE IF f.pc = "orientation" THEN full \o pos
      ELSE full \o pos \o ori

MinVolume(cands) ==
  CHOOSE v \in {getSamplingVolume(cands[k]) : k \in DOMAIN cands} :
    \A k \in DOMAIN cands : v <= getSamplingVolume(cands[k])

Tightest(cands) == {k \in DOMAIN cands : getSamplingVolume(cands[k]) = MinVolume(cands)}

FirstOf(S) == CHOOSE k \in S : \A j \in S : k <= j

LastOf(S) == CHOOSE k \in S : \A j \in S : j <= k

AfterPass == {f \in Frames : f.pc \in {"position", "orientation", "resolve"}}

\* C9 (as claimed): after each of the three passes the table holds, for every link, the
\* first-built of the candidates of smallest volume built for it so far.
C9_TiesKeepFirstSeen ==
  \A f \in AfterPass : \A l \in Links :
    LET cands == CandidatesSoFar(f, l)
    IN  cands # <<>> =>
          f.tab.usedL[l] = IKConstraintSampler(f.group_name, l, cands[FirstOf(Tightest(cands))])

\* C9 (amended): after each of the three passes the table holds, for every link, the
\* last-built of the candidates of smallest volume built for it so far: a new candidate
\* replaces the stored one unless the stored one's volume is strictly smaller.
C9_TiesKeepLastSeen ==
  \A f \in AfterPass : \A l \in Links :
    LET cands == CandidatesSoFar(f, l)
    IN  IF cands = <<>> THEN f.tab.usedL[l] = NoSampler
        ELSE f.tab.usedL[l] = IKConstraintSampler(f.group_name, l, cands[LastOf(Tightest(cands))])

\* two candidates of equal, smallest volume were built for one link in the pass just run
TieIn(f, l, cands) ==
  /\ Cardinality(Tightest(cands)) > 1
  /\ f.tab.usedL[l] # IKConstraintSampler(f.group_name, l, cands[FirstOf(Tightest(cands))])

C9_Witness ==
  \E f \in Frames : \E l \in Links :
    \/ f.pc = "position" /\ TieIn(f, l, FullPoseCandidates(f.constr, l))
    \/ f.pc = "orientation" /\ TieIn(f, l, PositionCandidates(f.constr, l))
    \/ f.pc = "resolve" /\ TieIn(f, l, OrientationCandidates(f.constr, l))

\* the links of the table whose sampler has the smallest volume of all
TightestLinks(usedL) ==
  {l \in Keys(usedL) : \A m \in Keys(usedL) : usedL[l].volume <= usedL[m].volume}

Rank(l) == CHOOSE k \in DOMAIN LinkOrder : LinkOrder[k] = l

SeveralTightest == {f \in Returned : Cardinality(TightestLinks(f.tab.usedL)) > 1}

\* C10 (as claimed): when several links share the smallest volume, the sampler kept is
\* the one of the link inserted into the table first.
C10_FirstInsertedWins ==
  \A f \in SeveralTightest :
    LET ins == SelectSeq(f.tab.inserted, LAMBDA l : l \in TightestLinks(f.tab.usedL))
    IN  IKOf(f.result) = f.tab.usedL[ins[1]]

\* C10 (amended): when several links share the smallest volume, the sampler kept is the
\* one of the link whose name comes first in string order (the order the map iterates),
\* whatever the order the links were inserted in.
C10_FirstInMapOrderWins ==
  \A f \in SeveralTightest :
    /\ IKOf(f.result).link \in TightestLinks(f.tab.usedL)
    /\ IKOf(f.result) = f.tab.usedL[IKOf(f.result).link]
    /\ \A l \in TightestLinks(f.tab.usedL) : Rank(IKOf(f.result).link) <= Rank(l)

\* L2 inserted before L1, equal volumes, L1 returned
C10_Witness ==
  \E f \in SeveralTightest :
    /\ f.tab.inserted = <<"L2", "L1">>
    /\ IKOf(f.result).link = "L1"

\* the subgroups an invocation has gone through, in the order it took them
Processed(f) == [k \in DOMAIN f.claimed |-> f.claimed[k].sub]

\* members are samplers of distinct subgroups of f, in the order f processed them
InProcessedOrder(f, members) ==
  /\ \A k \in DOMAIN members : members[k].kind \in {"IK", "Union"}
  /\ [k \in DOMAIN members |-> members[k].group] =
        SelectSeq(Processed(f), LAMBDA s : \E k \in DOMAIN members : members[k].group = s)

C11_WitnessIK ==
  \E f \in Returned :
    /\ f.joint_sampler # NoSampler
    /\ Keys(f.tab.usedL) # {}
    /\ f.result.kind = "Union"

\* the links for which c holds a configurable position constraint and a configurable
\* orientation constraint
FullPoseLinks(c) ==
  {l \in Links :
     /\ \E p \in DOMAIN c.position_constraints :
          c.position_constraints[p].link = l /\ ConstraintConfigure(c.position_constraints[p])
     /\ \E o \in DOMAIN c.orientation_constraints :
          c.orientation_constraints[o].link = l
            /\ ConstraintConfigure(c.orientation_constraints[o])}

\* the invocations whose full-pose pass is over
PastFullPose == {f \in Frames : f.pc \notin {"joint", "full_pose"}}

\* C12: a link that got a candidate in the full-pose pass keeps a full-pose candidate
\* (position and orientation of that link) through the position-only and the
\* orientation-only pass; a candidate with only a position or only an orientation is
\* stored only for a link outside the full-pose set.
C12_FullPoseExclusion ==
  \A f \in PastFullPose :
    /\ f.usedL_fullPose \subseteq Keys(f.tab.usedL)
    /\ f.usedL_fullPose \subseteq FullPoseLinks(f.constr)
    /\ \A l \in f.usedL_fullPose :
         /\ f.tab.usedL[l].pc # NoConstraint /\ f.tab.usedL[l].pc.link = l
         /\ f.tab.usedL[l].oc # NoConstraint /\ f.tab.usedL[l].oc.link = l
    /\ \A l \in Keys(f.tab.usedL) \ f.usedL_fullPose :
         (f.tab.usedL[l].pc = NoConstraint) # (f.tab.usedL[l].oc = NoConstraint)

\* L1 holds a full-pose candidate of volume 2 although an orientation constraint on L1
\* alone would give volume 1; L2, outside the full-pose set, holds a position-only one
C12_Witness ==
  \E f \in Frames :
    /\ f.pc \in {"resolve", "return"}
    /\ f.usedL_fullPose = {"L1"}
    /\ f.tab.usedL["L1"].volume = 2
    /\ \E o \in DOMAIN f.constr.orientation_constraints :
         /\ f.constr.orientation_constraints[o].link = "L1"
         /\ ConstraintConfigure(f.constr.orientation_constraints[o])
         /\ f.constr.orientation_constraints[o].vol = 1
    /\ f.tab.usedL["L2"] # NoSampler
    /\ f.tab.usedL["L2"].oc = NoConstraint

\* the invocations that have entered the subgroup pass
InSubgroupPass == {f \in Frames : f.pc \in {"subgroups", "call"} \/ f.claimed # <<>>}

\* the members of a result, the result itself when it is no Union
Members(r) == IF r.kind = "Union" THEN {r.samplers[k] : k \in DOMAIN r.samplers} ELSE {r}

\* C13: an invocation enters the subgroup pass (and calls itself on subgroups) only if
\* its group has no direct IK allocator or the whole-group IK pass left the candidate
\* table empty; so no result holds a whole-group IK sampler of its group next to samplers
\* of the group's subgroups, and the joint fallback is returned alone only when the table
\* is empty and no subgroup gave a sampler.
C13_StrategyPrecedence ==
  /\ \A f \in InSubgroupPass :
       Keys(f.tab.usedL) = {}
  /\ \A k \in DOMAIN stack :
       k > 1 => /\ stack[k - 1].pc = "call"
                /\ Keys(stack[k - 1].tab.usedL) = {}
  /\ \A f \in Returned :
       /\ ~\E m, n \in Members(f.result) :
            /\ m.kind = "IK" /\ m.group = f.group_name
            /\ n.kind \in {"IK", "Union"} /\ n.group # f.group_name
       /\ (f.joint_sampler # NoSampler /\ f.result = f.joint_sampler) =>
            /\ Keys(f.tab.usedL) = {}
            /\ ~f.some_sampler_valid
            /\ Len(f.samplers) = 1

\* a group with a direct IK allocator whose table stayed empty calls itself on a subgroup
C13_Witness ==
  \E f \in Frames :
    /\ f.pc = "call"
    /\ RobotModel[f.group_name].ik_alloc
    /\ f.constr.position_constraints # <<>>

\* the joint fallback returned alone after a subgroup was tried in vain
C13_WitnessFallback ==
  \E f \in Returned :
    /\ f.joint_sampler # NoSampler
    /\ f.result = f.joint_sampler
    /\ f.claimed # <<>>
    /\ calls > 1

\* a direct call of selectDefaultSampler with at most MaxTerminationConstraints constraints
InitFair ==
  /\ group_name \in GroupNames \cup {"unknown"}
  /\ constr \in ConstraintSetsUpTo(MaxTerminationConstraints)
  /\ ptrs \in AddressOrders(group_name)
  /\ sampler_alloc_ = 0
  /\ pc = "default"
  /\ i = 1
  /\ queried = <<>>
  /\ allocated = <<>>
  /\ stack = <<Frame(group_name, constr)>>
  /\ calls = 1
  /\ result = NoSampler
  /\ constructed = {}
  /\ NoTrajectories

\* selectDefaultSampler is sequential code: a step that can be taken is taken
SpecFair == InitFair /\ [][NextDefault]_vars /\ WF_vars(NextDefault)

Max(S) == CHOOSE x \in S : \A y \in S : y <= x

\* the depth of the subgroup hierarchy below group name
RECURSIVE HierarchyDepth(_)
HierarchyDepth(name) ==
  IF name \notin GroupNames \/ RobotModel[name].ik_subgroup_alloc = {} THEN 0
  ELSE 1 + Max({HierarchyDepth(s) : s \in RobotModel[name].ik_subgroup_alloc})

\* the number of recursive calls in progress
RecursionDepth == IF stack = <<>> THEN 0 ELSE Len(stack) - 1

\* C14: selectDefaultSampler terminates, and its recursion is never deeper than the
\* subgroup hierarchy below the requested group.
C14_Terminates ==
  /\ [](RecursionDepth <= HierarchyDepth(group_name))
  /\ <>(pc = "done")

\* the call for group over has returned after going through a subgroup of a subgroup
C14_Witness ==
  /\ pc = "done"
  /\ group_name = "over"
  /\ HierarchyDepth(group_name) = 2
  /\ calls = 4

\* a recursion as deep as the hierarchy
C14_WitnessDepth ==
  /\ HierarchyDepth(group_name) = 2
  /\ RecursionDepth = 2

\* the ids of the position constraints, and of the orientation constraints, sampler r uses
RECURSIVE PositionIds(_)
PositionIds(r) ==
  IF r.kind = "IK" THEN (IF r.pc = NoConstraint THEN {} ELSE {r.pc.id})
  ELSE IF r.kind = "Union" THEN UNION {PositionIds(r.samplers[k]) : k \in DOMAIN r.samplers}
  ELSE {}

RECURSIVE OrientationIds(_)
OrientationIds(r) ==
  IF r.kind = "IK" THEN (IF r.oc = NoConstraint THEN {} ELSE {r.oc.id})
  ELSE IF r.kind = "Union" THEN UNION {OrientationIds(r.samplers[k]) : k \in DOMAIN r.samplers}
  ELSE {}

\* what the recursive call of the a-th iteration of f's subgroup loop returns
SubgroupResult(f, a) ==
  LET cl == f.claimed[a]
      sc == [joint_constraints |-> <<>>,
             position_constraints |-> Pick(f.constr.position_constraints, cl.P),
             orientation_constraints |-> Pick(f.constr.orientation_constraints, cl.O)]
  IN  IF IsEmptyConstr(sc) THEN NoSampler ELSE selectDefaultSamplerFn(cl.sub, sc, ptrs)

\* the a-th iteration of f's subgroup loop added no sampler to the list samplers
AddedNothing(f, a) ==
  \A k \in DOMAIN f.samplers : f.samplers[k].group # f.claimed[a].sub

\* C15: a constraint is marked as claimed when it is copied for a subgroup, before the
\* recursive call is made and whatever that call returns; a constraint copied for a
\* subgroup whose call returns empty is handed to no later subgroup, even one that has
\* its link, and no sampler of the result uses it.
C15_ClaimedAtCopy ==
  \A f \in Frames :
    /\ \A a \in DOMAIN f.claimed : f.claimed[a].P \subseteq f.usedP /\ f.claimed[a].O \subseteq f.usedO
    /\ f.pc = "return" =>
         \A a \in DOMAIN f.claimed :
           AddedNothing(f, a) =>
             /\ \A b \in DOMAIN f.claimed :
                  b > a => /\ f.claimed[b].P \cap f.claimed[a].P = {}
                           /\ f.claimed[b].O \cap f.claimed[a].O = {}
             /\ \A p \in f.claimed[a].P :
                  f.constr.position_constraints[p].id \notin PositionIds(f.result)
             /\ \A o \in f.claimed[a].O :
                  f.constr.orientation_constraints[o].id \notin OrientationIds(f.result)

\* legs took a configurable position constraint on L1 and returned empty; mixed, which
\* has L1 too, came later, was left a constraint on L2 and gave the only sampler
C15_Witness ==
  \E f \in Returned :
    /\ f.group_name = "over"
    /\ Len(f.claimed) = 2
    /\ f.claimed[1].sub = "legs"
    /\ hasLinkModel(f.claimed[2].sub, "L1")
    /\ \E p \in f.claimed[1].P :
         /\ f.constr.position_constraints[p].link = "L1"
         /\ ConstraintConfigure(f.constr.position_constraints[p])
    /\ SubgroupResult(f, 1) = NoSampler
    /\ f.result.kind = "Union"
    /\ Len(f.result.samplers) = 1
    /\ PositionIds(f.result) # {}

\* r is an IK sampler or a Union of such, at any depth
RECURSIVE IKOnly(_)
IKOnly(r) ==
  \/ r.kind = "IK"
  \/ /\ r.kind = "Union"
     /\ \A k \in DOMAIN r.samplers : IKOnly(r.samplers[k])

\* C16: a recursive call gets position and orientation constraints only, never a joint
\* constraint of the input; what a subgroup contributes is an IK sampler or a Union of
\* such at any depth; a Joint Sampler is in a result only as the requested group's own
\* full-coverage sampler or as its joint fallback, the first member of the Union.
C16_JointOnlyAtTop ==
  /\ \A d \in DOMAIN stack :
       /\ d > 1 =>
            /\ stack[d].constr.joint_constraints = <<>>
            /\ stack[d].joint_sampler = NoSampler
            /\ stack[d].result # NoSampler => IKOnly(stack[d].result)
       /\ \A k \in DOMAIN stack[d].samplers :
            \/ k = 1 /\ stack[d].samplers[1] = stack[d].joint_sampler
            \/ IKOnly(stack[d].samplers[k])
  /\ (pc = "done" /\ calls > 0 /\ result # NoSampler) =>
       LET jp == JointCoveragePass(group_name, constr)
       IN  \/ result.kind = "Joint" /\ result \in {jp.result, jp.joint_sampler}
           \/ IKOnly(result)
           \/ /\ result.kind = "Union"
              /\ result.samplers[1].kind = "Joint"
              /\ result.samplers[1] = jp.joint_sampler
              /\ \A k \in 2..Len(result.samplers) : IKOnly(result.samplers[k])

\* the request has a configurable joint constraint on a variable of the subgroup, and
\* the subgroup returns an IK sampler to a caller that holds a joint fallback
C16_Witness ==
  /\ Len(stack) = 2
  /\ stack[2].pc = "return"
  /\ stack[2].result.kind = "IK"
  /\ stack[1].joint_sampler # NoSampler
  /\ \E k \in DOMAIN constr.joint_constraints :
       /\ constr.joint_constraints[k].var \in RobotModel[stack[2].group_name].vars
       /\ ConstraintConfigure(constr.joint_constraints[k])

\* swaps made in a row, an odd number of them
Swapped == swaps % 2 = 1

\* waypoint k of trajectory t comes with the k-th duration of trajectory u
SamePairing(t, u) ==
  /\ t.waypoints_ = u.waypoints_
  /\ t.duration_from_previous_ = u.duration_from_previous_

\* C17: swap exchanges the whole contents of the two trajectories: after one swap each
\* holds the other's former model, group, waypoints and durations, every waypoint still
\* paired with its own duration, and after a second swap both are as they were.
C17_SwapExchangesAll ==
  /\ Swapped =>
       /\ trajectory = orig[2] /\ other = orig[1]
       /\ SamePairing(trajectory, orig[2]) /\ SamePairing(other, orig[1])
  /\ (~Swapped /\ swaps > 0) => (trajectory = orig[1] /\ other = orig[2])

\* what swap does: model, group and waypoints change sides, the durations stay
SwapLeavesDurations ==
  Swapped =>
    /\ trajectory.kmodel_ = orig[2].kmodel_ /\ other.kmodel_ = orig[1].kmodel_
    /\ trajectory.group_ = orig[2].group_ /\ other.group_ = orig[1].group_
    /\ trajectory.waypoints_ = orig[2].waypoints_ /\ other.waypoints_ = orig[1].waypoints_
    /\ trajectory.duration_from_previous_ = orig[1].duration_from_previous_
    /\ other.duration_from_previous_ = orig[2].duration_from_previous_

\* one swap of two trajectories whose durations differ
SwapOfDifferentDurations ==
  /\ swaps = 1
  /\ orig[1].duration_from_previous_ # orig[2].duration_from_previous_
  /\ Len(orig[1].waypoints_) = Len(orig[1].duration_from_previous_)
  /\ Len(orig[2].waypoints_) = Len(orig[2].duration_from_previous_)

====
